---- MODULE Spec2Model ----
(***************************************************************************)
(* Model of olc_utils: the SeqLock word (src/src/seqlock.rs), the simple   *)
(* buffer manager with its free list and the three guard kinds             *)
(* (src/src/buffer_manager.rs).                                            *)
(*                                                                         *)
(* Every atomic access of the lock word (load, compare_exchange, fetch_or, *)
(* fetch_and, fetch_add, fetch_sub) and every critical section of the      *)
(* free-list mutex is one step of the thread that executes it.  The code   *)
(* between two such accesses is thread-local and is executed together with *)
(* the access that precedes it.                                            *)
(***************************************************************************)
EXTENDS Integers, Sequences, FiniteSets, TLC

\* ------------------------------------------------------------------ bounds
NThreads == 2
NReaders == 1
NPages == 1
MaxVersion == 3
\* how far below COUNT_MASK the shared count is followed once it is near it
MaxBelowMask == 3
\* width of usize in bits, and the largest frame size size_of::<T>()
WordBits == 5
MaxFrame == 12

\* the threads that use the whole interface
Workers == 1..NThreads
\* the threads that only read: lock_optimistic, validation, GuardO -> GuardS
Readers == (NThreads + 1)..(NThreads + NReaders)
Threads == Workers \cup Readers
Pages == 0..(NPages - 1)
\* owner of a page that is not allocated
NoThread == {}

\* ------------------------------------------------- seqlock.rs:9-12 constants
COUNT_BITS == 10

RECURSIVE Pow2(_)
Pow2(n) == IF n = 0 THEN 1 ELSE 2 * Pow2(n - 1)

COUNT_MASK == Pow2(COUNT_BITS) - 1
EXCLUSIVE_MASK == Pow2(COUNT_BITS)
VERSION_SHIFT == COUNT_BITS + 1
VERSION_UNIT == Pow2(VERSION_SHIFT)

\* ------------------------------------------- bit arithmetic on the u64 word
\* x >> VERSION_SHIFT
VersionOf(x) == x \div VERSION_UNIT
\* v << VERSION_SHIFT
ShlVersion(v) == v * VERSION_UNIT
\* x & COUNT_MASK
AndCount(x) == x % (COUNT_MASK + 1)
\* x & EXCLUSIVE_MASK
AndExcl(x) == IF (x \div EXCLUSIVE_MASK) % 2 = 1 THEN EXCLUSIVE_MASK ELSE 0
\* x & (COUNT_MASK | EXCLUSIVE_MASK)
AndCountExcl(x) == AndExcl(x) + AndCount(x)
\* x & !COUNT_MASK
AndNotCount(x) == x - AndCount(x)

\* ------------------------------------------------------- version filters
\* impl VersionFilter for () and for OlcVersion
AnyVersion == [must |-> FALSE, v |-> 0]
MustEqual(v) == [must |-> TRUE, v |-> v]
FilterCheck(f, v) == IF f.must THEN v = f.v ELSE TRUE

\* ------------------------------------- the read-modify-write word updates
\* fetch_or(EXCLUSIVE_MASK): the stored value
FetchOrExclusiveMut(x) == x + EXCLUSIVE_MASK
FetchOrExclusive(x) == x + (EXCLUSIVE_MASK - AndExcl(x))
\* fetch_and(!EXCLUSIVE_MASK): the stored value
FetchAndNotExclusive(x) == x - AndExcl(x)
\* compare_exchange_weak(x, x + 1): the stored value on success
SharedIncrement(x) == x + 1
\* the guard of the compare-and-swap in lock_shared
CanIncrementSharedMut(x) == AndCountExcl(x) <= COUNT_MASK
CanIncrementShared(x) == AndCountExcl(x) < COUNT_MASK
\* fetch_sub(1): the stored value
SharedDecrementMut(x) == x
SharedDecrement(x) == x - 1
\* fetch_add(EXCLUSIVE_MASK): the stored value
UnlockExclusiveWordMut(x) == x - EXCLUSIVE_MASK
UnlockExclusiveWord(x) == x + EXCLUSIVE_MASK
\* try_unlock_optimistic: (x & !COUNT_MASK) == v.x << VERSION_SHIFT
TryUnlockOptimisticMut(x, v) == x = ShlVersion(v)
TryUnlockOptimisticVersionMut(x, v) == VersionOf(x) = v
TryUnlockOptimistic(x, v) == AndNotCount(x) = ShlVersion(v)
\* the debug_assert! of force_lock_exclusive
ForceLockAssert(x) == AndCountExcl(x) = 0
\* the debug_assert! of unlock_exclusive
UnlockExclusiveAssert(x) == AndExcl(x) # 0
\* the debug_assert! of unlock_shared
UnlockSharedAssert(x) == AndCount(x) # 0

\* ------------------------------------------------------------------ state
VARIABLES
    debug_assertions, \* the build: TRUE when debug_assert! is compiled in
    word,             \* SimpleBm::locks: pid -> value of SeqLock.0
    free_list,        \* SimpleBm::free_list: the Vec behind the mutex
    pc,               \* thread -> where it is in its current call
    pid,              \* thread -> page of its current call or guard
    x,                \* thread -> the local x of lock_shared / lock_exclusive
    ver,              \* thread -> SimpleGuardO::version of the guard it holds
    filt,             \* thread -> the filter f of its current lock call
    written,          \* thread -> SimpleGuardX::written of the guard it holds
    rd,               \* the last read_unaligned_nonatomic_* call and its outcome
    ret,              \* a version returned by a release, kept by the client
    others,           \* page -> shared guards held by threads outside Threads
    track_thread_locks, \* the build: TRUE with the feature track-thread-locks
    thread_locks,     \* thread -> its THREAD_LOCKS map: page -> mode held
    owner,            \* history: pid -> the thread whose alloc made it live, if any
    snap_alloc,       \* history: thread -> its snapshot was taken on a live page
    hist,             \* history: thread -> what happened since its snapshot
    res,              \* history: thread -> outcome of its last validation
    assert_failed     \* history: the debug_assert! conditions found false

vars == <<debug_assertions, word, free_list, pc, pid, x, ver, filt, written,
          rd, others, ret, track_thread_locks, thread_locks, owner, snap_alloc, hist, res,
          assert_failed>>

NoHist == [held |-> FALSE, tried |-> FALSE, shr |-> FALSE, done |-> FALSE]

\* SimpleBm::new(capacity): zeroed locks, free list (0..capacity).collect()
FreshFreeList(capacity) == [i \in 1..capacity |-> i - 1]

\* no read has been made
NoRead == [n |-> 0, size |-> 0, offset |-> 0, out |-> "none"]

\* seqlock.rs:178-180  no entry of the map for a lock
NoEntry == "none"

\* the state after SimpleBm::new in a build with or without the feature
\* no returned version is kept (on: whether the client keeps them at all;
\* since: an exclusive release of the page has happened after the return)
NoReturn(on) == [on |-> on, has |-> FALSE, p |-> 0, v |-> 0, since |-> FALSE]

InitWith(track, keeps) ==
    /\ track_thread_locks = track
    /\ ret = NoReturn(keeps)
    /\ thread_locks = [t \in Threads |-> [p \in Pages |-> NoEntry]]
    /\ debug_assertions \in BOOLEAN
    /\ word = [p \in Pages |-> 0]
    /\ free_list = FreshFreeList(NPages)
    /\ pc = [t \in Threads |-> "idle"]
    /\ pid = [t \in Threads |-> 0]
    /\ x = [t \in Threads |-> 0]
    /\ ver = [t \in Threads |-> 0]
    /\ filt = [t \in Threads |-> AnyVersion]
    /\ written = [t \in Threads |-> FALSE]
    /\ rd = NoRead
    /\ others = [p \in Pages |-> 0]
    /\ owner = [p \in Pages |-> NoThread]
    /\ snap_alloc = [t \in Threads |-> FALSE]
    /\ hist = [t \in Threads |-> NoHist]
    /\ res = [t \in Threads |-> "none"]
    /\ assert_failed = {}

\* the default features: track-thread-locks is off
Init == InitWith(FALSE, FALSE)
InitTrack == InitWith(TRUE, FALSE)
\* the client keeps versions that releases return
InitRet == InitWith(FALSE, TRUE)

\* ---------------------------------------------------------------- guards
\* the thread owns a SimpleGuardX (also while an unwind has not yet dropped it)
HoldsX(t, p) == pc[t] \in {"holdX", "unwindX"} /\ pid[t] = p
HoldsS(t, p) == pc[t] \in {"holdS", "unwindS"} /\ pid[t] = p
InUpgrade(t) == pc[t] \in {"s_loop", "x_load", "x_or", "x_and", "x_drain"} /\ filt[t].must
\* the thread owns a SimpleGuardO (also while upgrade runs, until it is forgotten)
HoldsO(t, p) == (pc[t] \in {"holdO", "r_holdO", "r_checked"} \/ InUpgrade(t)) /\ pid[t] = p

\* ------------------------------------------------------- history updates
\* what the snapshot of thread u has seen after a step on page p
HistAfter(u, p, held, tried, shr) ==
    IF HoldsO(u, p)
    THEN [held |-> hist[u].held \/ held,
          tried |-> hist[u].tried \/ tried,
          shr |-> hist[u].shr \/ shr,
          done |-> hist[u].done]
    ELSE hist[u]

\* seqlock.rs:182-188  lock_track_check panics when the map has an entry
LockTrackCheckMut(existing) == FALSE
LockTrackCheck(existing) == existing # NoEntry

\* seqlock.rs:190-200 (no-op at 165-167 without the feature)  lock_track_set:
\* insert the mode, or remove the entry when the mode is NoEntry
LockTrackSet(t, p, mode) ==
    thread_locks' = IF track_thread_locks
                    THEN [thread_locks EXCEPT ![t][p] = mode]
                    ELSE thread_locks

\* thread t's locals after a step; a SimpleGuardX is built with written: false
\* (buffer_manager.rs:138, 143, 196, 214)
Local(t, npc, np, nx, nver, nf) ==
    /\ written' = [written EXCEPT ![t] = FALSE]
    /\ pc' = [pc EXCEPT ![t] = npc]
    /\ pid' = [pid EXCEPT ![t] = np]
    /\ x' = [x EXCEPT ![t] = nx]
    /\ ver' = [ver EXCEPT ![t] = nver]
    /\ filt' = [filt EXCEPT ![t] = nf]
\* t returns to its caller holding nothing
ToIdle(t) == Local(t, "idle", 0, 0, 0, AnyVersion)
\* t panics: the thread is gone
ToPanic(t) == Local(t, "panicked", 0, 0, 0, AnyVersion)

\* a debug_assert!(cond) executed by t: records a false condition; the debug
\* build panics there, the release build goes on with `cont`
DebugAssert(t, cond, name, cont) ==
    /\ assert_failed' = IF cond THEN assert_failed ELSE assert_failed \cup {name}
    /\ IF ~cond /\ debug_assertions THEN ToPanic(t) ELSE cont

\* the version field is capped: no exclusive acquisition starts at MaxVersion
VersionBelowMax(p) == VersionOf(word[p]) < MaxVersion

\* the history variables after a step of t on page p: the other threads'
\* snapshots record the step (a recorded validation outcome stands for the
\* history it was computed on), t's own entries are set to mh, mr, ms
Ghost(t, p, held, tried, shr, mh, mr, ms) ==
    /\ hist' = [u \in Threads |->
                    IF u = t THEN mh ELSE HistAfter(u, p, held, tried, shr)]
    /\ res' = [u \in Threads |->
                    IF u = t THEN mr
                    ELSE IF hist'[u] # hist[u] THEN "none" ELSE res[u]]
    /\ snap_alloc' = [snap_alloc EXCEPT ![t] = ms]
\* a step that the snapshots do not record
Quiet(t, mh, mr, ms) ==
    /\ hist' = [hist EXCEPT ![t] = mh]
    /\ res' = [res EXCEPT ![t] = mr]
    /\ snap_alloc' = [snap_alloc EXCEPT ![t] = ms]

\* an unlock_exclusive of t on page p: a section has completed under the
\* snapshots of the other threads
GhostUnlock(t, p) ==
    /\ hist' = [u \in Threads |->
                    IF u = t THEN NoHist
                    ELSE IF HoldsO(u, p) THEN [hist[u] EXCEPT !.done = TRUE]
                    ELSE hist[u]]
    /\ res' = [u \in Threads |->
                    IF u = t THEN "none"
                    ELSE IF hist'[u] # hist[u] THEN "none" ELSE res[u]]
    /\ snap_alloc' = [snap_alloc EXCEPT ![t] = FALSE]

\* optimistic_error.rs:65-67  is_unwinding(): std::thread::panicking()
IsUnwinding(at) == at \in {"unwind", "r_unwind", "unwindX", "unwindS"}

\* buffer_manager.rs:239-246  Drop for SimpleGuardO: a failed validation raises
\* unless the thread is unwinding
GuardODropRaisesMut(valid, unwinding) == ~valid
GuardODropRaises(valid, unwinding) == ~valid /\ ~unwinding

\* an optimistic failure raised in t (optimistic_fail_with -> resume_unwind)
\* while its SimpleGuardO is alive: the stack starts to unwind
OptimisticFail(t, outcome) ==
    /\ Local(t, "unwind", pid[t], 0, ver[t], AnyVersion)
    /\ Quiet(t, hist[t], outcome, FALSE)

\* ------------------------------------------------- SimpleBm::alloc / dealloc
\* Vec::pop: the list that is left
PopFreeListMut(fl) == fl
PopFreeList(fl) == SubSeq(fl, 1, Len(fl) - 1)

\* buffer_manager.rs:46  free_list.lock().unwrap().pop().expect("out of pages")
AllocPop(t) ==
    /\ pc[t] = "idle"
    /\ free_list # <<>>
    /\ LET p == free_list[Len(free_list)] IN
        /\ VersionBelowMax(p)
        /\ free_list' = PopFreeList(free_list)
        /\ Local(t, "a_force", p, 0, 0, AnyVersion)
    /\ Quiet(t, NoHist, "none", FALSE)
    /\ UNCHANGED <<debug_assertions, rd, others, ret, track_thread_locks, thread_locks, word, owner, assert_failed>>

\* buffer_manager.rs:46  pop() on an empty list: expect panics
AllocEmpty(t) ==
    /\ pc[t] = "idle"
    /\ free_list = <<>>
    /\ ToPanic(t)
    /\ Quiet(t, NoHist, "none", FALSE)
    /\ UNCHANGED <<debug_assertions, rd, others, ret, track_thread_locks, thread_locks, word, free_list, owner, assert_failed>>

\* buffer_manager.rs:47  seqlock.rs:124-130  force_lock_exclusive
AllocForce(t) ==
    /\ pc[t] = "a_force"
    /\ LET p == pid[t]
           old == word[p]
           passed == ForceLockAssert(old) \/ ~debug_assertions
       IN
        /\ word' = [word EXCEPT ![p] = FetchOrExclusive(old)]
        /\ DebugAssert(t, ForceLockAssert(old), "force_lock_exclusive",
                       Local(t, "holdX", p, 0, VersionOf(old), AnyVersion))
        /\ owner' = [owner EXCEPT ![p] = IF passed THEN {t} ELSE @]
        /\ Ghost(t, p, passed, TRUE, FALSE, NoHist, "none", FALSE)
    /\ LockTrackSet(t, pid[t], "exclusive")
    /\ UNCHANGED <<debug_assertions, rd, others, ret, track_thread_locks, free_list>>

\* seqlock.rs:133-138  unlock_exclusive, then `cont`
\* seqlock.rs:137  OlcVersion { x: (fetched + EXCLUSIVE_MASK) >> VERSION_SHIFT }
UnlockExclusiveReturn(fetched) == VersionOf(fetched + EXCLUSIVE_MASK)

\* seqlock.rs:83  OlcVersion { x: fetched >> VERSION_SHIFT }
UnlockSharedReturn(fetched) == VersionOf(fetched)

\* the version v returned by a release of page p: the client keeps it, or
\* goes on with the one it has, which an exclusive release of its page
\* makes an old one
ReturnAfter(p, v, exclusive) ==
    IF ~ret.on THEN {ret}
    ELSE {[on |-> TRUE, has |-> TRUE, p |-> p, v |-> v, since |-> FALSE],
          IF exclusive /\ ret.has /\ ret.p = p
          THEN [ret EXCEPT !.since = TRUE] ELSE ret}

UnlockExclusive(t, cont) ==
    LET p == pid[t]
        fetched == word[p]
    IN  /\ LockTrackSet(t, p, NoEntry)
        /\ ret' \in ReturnAfter(p, UnlockExclusiveReturn(fetched), TRUE)
        /\ word' = [word EXCEPT ![p] = UnlockExclusiveWord(fetched)]
        /\ DebugAssert(t, UnlockExclusiveAssert(fetched), "unlock_exclusive", cont)
        /\ GhostUnlock(t, p)

\* buffer_manager.rs:146-150, 256-263  SimpleGuardX::release and drop
GuardXUnlock(t) ==
    /\ pc[t] = "holdX"
    /\ UnlockExclusive(t, ToIdle(t))
    /\ UNCHANGED <<debug_assertions, rd, others, track_thread_locks, free_list, owner>>

\* buffer_manager.rs:181-184  deref_mut: self.written = true
GuardXDerefMut(t) ==
    /\ pc[t] = "holdX"
    /\ written' = [written EXCEPT ![t] = TRUE]
    /\ UNCHANGED <<debug_assertions, rd, others, ret, track_thread_locks, thread_locks, word, free_list, pc, pid, x, ver, filt,
                   owner, snap_alloc, hist, res, assert_failed>>

\* buffer_manager.rs:162-164  reset_written: self.written = false
GuardXResetWritten(t) ==
    /\ pc[t] = "holdX"
    /\ written' = [written EXCEPT ![t] = FALSE]
    /\ UNCHANGED <<debug_assertions, rd, others, ret, track_thread_locks, thread_locks, word, free_list, pc, pid, x, ver, filt,
                   owner, snap_alloc, hist, res, assert_failed>>

\* an optimistic failure is raised in t while its SimpleGuardX is alive
\* (o_ptr.rs:62, 81, 89, 110: optimistic_fail() of an OPtr access): the
\* stack starts to unwind
GuardXRaise(t) ==
    /\ pc[t] = "holdX"
    /\ pc' = [pc EXCEPT ![t] = "unwindX"]
    /\ Quiet(t, NoHist, "opt_fail", FALSE)
    /\ UNCHANGED <<debug_assertions, rd, others, ret, track_thread_locks, thread_locks, word, free_list, pid, x, ver, filt, written,
                   owner, assert_failed>>

\* buffer_manager.rs:258-260  if is_unwinding() { assert!(!self.written) }
GuardXDropAssert(unwinding, w) == unwinding => ~w

\* buffer_manager.rs:256-263  Drop for SimpleGuardX during the unwind: the
\* assertion, then unlock_exclusive; a failed assertion panics inside the
\* unwind and the process aborts with the lock held
UnwindDropX(t) ==
    /\ pc[t] = "unwindX"
    /\ IF GuardXDropAssert(IsUnwinding(pc[t]), written[t])
       THEN UnlockExclusive(t, IF res[t] = "panic" THEN ToPanic(t) ELSE ToIdle(t))
       ELSE /\ ToPanic(t)
            /\ assert_failed' = assert_failed \cup {"written"}
            /\ Quiet(t, NoHist, "none", FALSE)
            /\ UNCHANGED <<word, thread_locks, ret>>
    /\ UNCHANGED <<debug_assertions, rd, others, track_thread_locks, free_list, owner>>

\* buffer_manager.rs:166-169, 51-53  SimpleGuardX::dealloc up to unlock_exclusive
DeallocUnlock(t) ==
    /\ pc[t] = "holdX"
    /\ owner[pid[t]] = {t}
    /\ UnlockExclusive(t, Local(t, "d_push", pid[t], 0, 0, AnyVersion))
    /\ owner' = [owner EXCEPT ![pid[t]] = NoThread]
    /\ UNCHANGED <<debug_assertions, rd, others, track_thread_locks, free_list>>

\* buffer_manager.rs:54  free_list.lock().unwrap().push(pid)
DeallocPush(t) ==
    /\ pc[t] = "d_push"
    /\ free_list' = Append(free_list, pid[t])
    /\ ToIdle(t)
    /\ Quiet(t, NoHist, "none", FALSE)
    /\ UNCHANGED <<debug_assertions, rd, others, ret, track_thread_locks, thread_locks, word, owner, assert_failed>>

\* ------------------------------------------- lock_optimistic and SimpleGuardO
\* seqlock.rs:140-151  one iteration of lock_optimistic(()), then
\* buffer_manager.rs:266-269  SimpleGuardO::acquire_wait builds the guard
OptimisticLoad(t, p) ==
    LET v == word[p] IN
    /\ IF AndExcl(v) = 0
       THEN /\ Local(t, "holdO", p, 0, VersionOf(v), AnyVersion)
            /\ Quiet(t, [NoHist EXCEPT !.held = \E u \in Threads : HoldsX(u, p)],
                     "none", owner[p] # NoThread)
       ELSE /\ Local(t, "o_load", p, 0, 0, AnyVersion)
            /\ Quiet(t, NoHist, "none", FALSE)
    /\ UNCHANGED <<debug_assertions, rd, others, ret, track_thread_locks, thread_locks, word, free_list, owner, assert_failed>>

\* lib.rs:56-58  lock_optimistic(pid): the call and its first load
LockOptimisticCall(t) ==
    /\ pc[t] = "idle"
    /\ \E p \in Pages : OptimisticLoad(t, p)

\* seqlock.rs:147-149  wait, then the next iteration's load
LockOptimisticRetry(t) ==
    /\ pc[t] = "o_load"
    /\ OptimisticLoad(t, pid[t])

\* the try_unlock_optimistic(self.version) of a guard held by t
Validate(t) == TryUnlockOptimistic(word[pid[t]], ver[t])

\* buffer_manager.rs:225-230  SimpleGuardO::check
GuardOCheck(t) ==
    /\ pc[t] = "holdO"
    /\ IF Validate(t)
       THEN /\ Quiet(t, hist[t], "val_ok", snap_alloc[t])
            /\ UNCHANGED <<pc, pid, x, ver, filt, written>>
       ELSE OptimisticFail(t, "val_err")
    /\ UNCHANGED <<debug_assertions, rd, others, ret, track_thread_locks, thread_locks, word, free_list, owner, assert_failed>>

\* buffer_manager.rs:276-281  SimpleGuardO::release: optmistic_fail_check
\* raises before forget(self)
GuardOEnd(t) ==
    /\ pc[t] = "holdO"
    /\ IF Validate(t)
       THEN /\ ToIdle(t)
            /\ Quiet(t, hist[t], "val_ok", FALSE)
       ELSE OptimisticFail(t, "val_err")
    /\ UNCHANGED <<debug_assertions, rd, others, ret, track_thread_locks, thread_locks, word, free_list, owner, assert_failed>>

\* buffer_manager.rs:237-248  Drop for SimpleGuardO outside an unwind: the guard
\* goes out of scope; a failure raised here finds no guard left to drop
GuardODrop(t) ==
    /\ pc[t] = "holdO"
    /\ ToIdle(t)
    /\ Quiet(t, hist[t],
             IF GuardODropRaises(Validate(t), IsUnwinding(pc[t]))
             THEN "val_err" ELSE "val_ok", FALSE)
    /\ UNCHANGED <<debug_assertions, rd, others, ret, track_thread_locks, thread_locks, word, free_list, owner, assert_failed>>

\* buffer_manager.rs:237-248  Drop for SimpleGuardO during the unwind of an
\* optimistic failure; a second failure raised here would abort the process
UnwindDropO(t) ==
    /\ pc[t] = "unwind"
    /\ IF GuardODropRaises(Validate(t), IsUnwinding(pc[t]))
       THEN /\ ToPanic(t)
            /\ assert_failed' = assert_failed \cup {"second_failure"}
       ELSE /\ ToIdle(t)
            /\ UNCHANGED assert_failed
    /\ Quiet(t, hist[t], res[t], FALSE)
    /\ UNCHANGED <<debug_assertions, rd, others, ret, track_thread_locks, thread_locks, word, free_list, owner>>

\* buffer_manager.rs:221-223  SimpleGuardO::release_unchecked
GuardOReleaseUnchecked(t) ==
    /\ pc[t] = "holdO"
    /\ ToIdle(t)
    /\ Quiet(t, NoHist, "none", FALSE)
    /\ UNCHANGED <<debug_assertions, rd, others, ret, track_thread_locks, thread_locks, word, free_list, owner, assert_failed>>

\* ------------------------------------------------ lock_shared and SimpleGuardS
\* seqlock.rs:62  let mut x = self.0.load(Relaxed), before the loop
\* lib.rs:59-61, buffer_manager.rs:96-99  lock_shared(pid) by the page's owner
LockSharedCall(t) ==
    /\ pc[t] = "idle"
    /\ \E p \in Pages :
        /\ owner[p] = {t}
        /\ Local(t, "s_loop", p, word[p], 0, AnyVersion)
    /\ Quiet(t, NoHist, "none", FALSE)
    /\ UNCHANGED <<debug_assertions, rd, others, ret, track_thread_locks, thread_locks, word, free_list, owner, assert_failed>>

\* buffer_manager.rs:201-203  GuardO -> GuardS: lock_shared(self.version)
UpgradeShared(t) ==
    /\ pc[t] = "holdO"
    /\ snap_alloc[t]
    /\ Local(t, "s_loop", pid[t], word[pid[t]], ver[t], MustEqual(ver[t]))
    /\ Quiet(t, hist[t], "none", snap_alloc[t])
    /\ UNCHANGED <<debug_assertions, rd, others, ret, track_thread_locks, thread_locks, word, free_list, owner, assert_failed>>

\* seqlock.rs:64  f.check(x >> VERSION_SHIFT)? fails;
\* buffer_manager.rs:203  optmistic_fail_check raises
SharedFilterFail(t) ==
    /\ pc[t] = "s_loop"
    /\ ~FilterCheck(filt[t], VersionOf(x[t]))
    /\ OptimisticFail(t, "up_err")
    /\ UNCHANGED <<debug_assertions, rd, others, ret, track_thread_locks, thread_locks, word, free_list, owner, assert_failed>>

\* seqlock.rs:65-72  compare_exchange_weak(x, x + 1): Ok returns, Err(v) sets x = v
\* (a spurious failure returns the value x already has and changes nothing)
SharedCas(t) ==
    /\ pc[t] = "s_loop"
    /\ FilterCheck(filt[t], VersionOf(x[t]))
    /\ CanIncrementShared(x[t])
    /\ LET p == pid[t] IN
       IF word[p] = x[t]
       THEN /\ word' = [word EXCEPT ![p] = SharedIncrement(x[t])]
            /\ Local(t, "holdS", p, 0, VersionOf(x[t]), AnyVersion)
            /\ Ghost(t, p, FALSE, FALSE, TRUE, hist[t], "none", FALSE)
       ELSE /\ Local(t, "s_loop", p, word[p], ver[t], filt[t])
            /\ Quiet(t, hist[t], res[t], snap_alloc[t])
            /\ UNCHANGED word
    /\ LockTrackSet(t, pid[t], IF word[pid[t]] = x[t] THEN "shared"
                                ELSE thread_locks[t][pid[t]])
    /\ UNCHANGED <<debug_assertions, rd, others, ret, track_thread_locks, free_list, owner, assert_failed>>

\* seqlock.rs:73-75  self.wait(), and the loop goes round with the x it has
SharedWait(t) ==
    /\ pc[t] = "s_loop"
    /\ FilterCheck(filt[t], VersionOf(x[t]))
    /\ ~CanIncrementShared(x[t])
    /\ UNCHANGED vars

\* seqlock.rs:79-84  unlock_shared;
\* buffer_manager.rs:106-110, 250-254  SimpleGuardS::release and drop
GuardSUnlock(t) ==
    /\ pc[t] = "holdS"
    /\ LET p == pid[t]
           fetched == word[p]
       IN
        /\ word' = [word EXCEPT ![p] = SharedDecrement(fetched)]
        /\ ret' \in ReturnAfter(p, UnlockSharedReturn(fetched), FALSE)
        /\ DebugAssert(t, UnlockSharedAssert(fetched), "unlock_shared", ToIdle(t))
        /\ Ghost(t, p, FALSE, FALSE, TRUE, NoHist, "none", FALSE)
    /\ LockTrackSet(t, pid[t], NoEntry)
    /\ UNCHANGED <<debug_assertions, rd, others, track_thread_locks, free_list, owner>>

\* --------------------------------------------- lock_exclusive and SimpleGuardX
\* seqlock.rs:95-97  one pass of the outer loop up to `if x & EXCLUSIVE_MASK == 0`:
\* the load, f.check(..)? and the test of the flag
ExclusiveLoad(t, p, f) ==
    LET v == word[p] IN
    /\ IF ~FilterCheck(f, VersionOf(v))
       THEN OptimisticFail(t, "up_err")
       ELSE /\ Local(t, IF AndExcl(v) = 0 THEN "x_or" ELSE "x_load", p, 0, ver[t], f)
            /\ Quiet(t, IF f.must THEN hist[t] ELSE NoHist, "none", snap_alloc[t])
    /\ UNCHANGED <<debug_assertions, rd, others, ret, track_thread_locks, thread_locks, word, free_list, owner, assert_failed>>

\* lib.rs:62-64, buffer_manager.rs:136-139  lock_exclusive(pid) by the page's owner
LockExclusiveCall(t) ==
    /\ pc[t] = "idle"
    /\ \E p \in Pages :
        /\ owner[p] = {t}
        /\ VersionBelowMax(p)
        /\ ExclusiveLoad(t, p, AnyVersion)

\* buffer_manager.rs:211-213  GuardO -> GuardX: lock_exclusive(self.version)
UpgradeExclusive(t) ==
    /\ pc[t] = "holdO"
    /\ snap_alloc[t]
    /\ VersionBelowMax(pid[t])
    /\ ExclusiveLoad(t, pid[t], MustEqual(ver[t]))

\* seqlock.rs:94-97  the next pass of the outer loop
ExclusiveRetry(t) ==
    /\ pc[t] = "x_load"
    /\ ExclusiveLoad(t, pid[t], filt[t])

\* t returns from lock_exclusive with the lock (seqlock.rs:110, 117)
ExclusiveAcquired(t, v) == Local(t, "holdX", pid[t], 0, v, AnyVersion)

\* seqlock.rs:98-111  x = fetch_or(EXCLUSIVE_MASK, Acquire) and the tests of x
ExclusiveFetchOr(t) ==
    /\ pc[t] = "x_or"
    /\ LET p == pid[t]
           old == word[p]
           taken == AndExcl(old) # 0
           rejected == ~FilterCheck(filt[t], VersionOf(old))
           quiesced == AndCountExcl(old) = 0
       IN
        /\ word' = [word EXCEPT ![p] = FetchOrExclusive(old)]
        /\ IF taken THEN Local(t, "x_load", p, 0, ver[t], filt[t])
           ELSE IF rejected THEN Local(t, "x_and", p, 0, ver[t], filt[t])
           ELSE IF quiesced THEN ExclusiveAcquired(t, VersionOf(old))
           ELSE Local(t, "x_drain", p, 0, ver[t], filt[t])
        /\ Ghost(t, p, ~taken /\ ~rejected /\ quiesced, TRUE, FALSE,
                 hist[t], "none", FALSE)
    /\ LockTrackSet(t, pid[t],
            IF AndExcl(word[pid[t]]) = 0
               /\ FilterCheck(filt[t], VersionOf(word[pid[t]]))
               /\ AndCountExcl(word[pid[t]]) = 0
            THEN "exclusive" ELSE thread_locks[t][pid[t]])
    /\ UNCHANGED <<debug_assertions, rd, others, ret, track_thread_locks, free_list, owner, assert_failed>>

\* seqlock.rs:103-107  the filter rejected: fetch_and(!EXCLUSIVE_MASK, Relaxed)
ExclusiveFetchAnd(t) ==
    /\ pc[t] = "x_and"
    /\ word' = [word EXCEPT ![pid[t]] = FetchAndNotExclusive(word[pid[t]])]
    /\ Local(t, "x_load", pid[t], 0, ver[t], filt[t])
    /\ Quiet(t, hist[t], "none", FALSE)
    /\ UNCHANGED <<debug_assertions, rd, others, ret, track_thread_locks, thread_locks, free_list, owner, assert_failed>>

\* seqlock.rs:112-119  the drain loop: wait, load, return when the count is zero
ExclusiveDrain(t) ==
    /\ pc[t] = "x_drain"
    /\ IF AndCount(word[pid[t]]) = 0
       THEN /\ ExclusiveAcquired(t, VersionOf(word[pid[t]]))
            /\ Ghost(t, pid[t], TRUE, FALSE, FALSE, hist[t], "none", FALSE)
       ELSE UNCHANGED <<pc, pid, x, ver, filt, written, hist, res, snap_alloc>>
    /\ LockTrackSet(t, pid[t], IF AndCount(word[pid[t]]) = 0 THEN "exclusive"
                                ELSE thread_locks[t][pid[t]])
    /\ UNCHANGED <<debug_assertions, rd, others, ret, track_thread_locks, word, free_list, owner, assert_failed>>

\* ---------------------------------------------------------------- repeat
\* lib.rs:48-54  repeat(f) with the body
\*     f = || { let g = bm.lock_optimistic(pid); /* read */ g.check() }
\* whose value is the version check() returns; g is dropped when f ends

\* optimistic_error.rs:56-62  catch: Ok(r) for a body that returned, Err for a
\* caught OptimisticError; lib.rs:50  `if let Ok(x) = ... { return x }`
CatchIsOkMut(outcome) == outcome \in {"value", "optimistic"}
CatchIsOk(outcome) == outcome = "value"

\* repeat after catch(&mut f) has come back with `outcome`: return the value
\* or go round the loop and invoke the body again
RepeatAfterCatch(t, outcome, value) ==
    IF CatchIsOk(outcome)
    THEN Local(t, "r_ret", pid[t], value, 0, AnyVersion)
    ELSE Local(t, "r_load", pid[t], 0, 0, AnyVersion)

\* seqlock.rs:140-151  one iteration of the body's lock_optimistic(())
RepeatOptimisticLoad(t, p) ==
    LET v == word[p] IN
    /\ IF AndExcl(v) = 0
       THEN /\ Local(t, "r_holdO", p, 0, VersionOf(v), AnyVersion)
            /\ Quiet(t, [NoHist EXCEPT !.held = \E u \in Threads : HoldsX(u, p)],
                     "none", owner[p] # NoThread)
       ELSE /\ Local(t, "r_load", p, 0, 0, AnyVersion)
            /\ Quiet(t, NoHist, IF pc[t] = "idle" THEN "none" ELSE res[t], FALSE)
    /\ UNCHANGED <<debug_assertions, rd, others, ret, track_thread_locks, thread_locks, word, free_list, owner, assert_failed>>

\* lib.rs:48-50  repeat is called: catch invokes the body, which calls
\* lock_optimistic
RepeatCall(t) ==
    /\ pc[t] = "idle"
    /\ \E p \in Pages : RepeatOptimisticLoad(t, p)

\* the body's lock_optimistic loads the word (again, or in a new invocation)
RepeatLoad(t) ==
    /\ pc[t] = "r_load"
    /\ RepeatOptimisticLoad(t, pid[t])

\* buffer_manager.rs:225-230  the body's g.check(): returns g.version or raises
RepeatCheck(t) ==
    /\ pc[t] = "r_holdO"
    /\ IF Validate(t)
       THEN /\ Local(t, "r_checked", pid[t], ver[t], ver[t], AnyVersion)
            /\ Quiet(t, hist[t], "val_ok", snap_alloc[t])
       ELSE /\ Local(t, "r_unwind", pid[t], 0, ver[t], AnyVersion)
            /\ Quiet(t, hist[t], "val_err", FALSE)
    /\ UNCHANGED <<debug_assertions, rd, others, ret, track_thread_locks, thread_locks, word, free_list, owner, assert_failed>>

\* buffer_manager.rs:237-248  the body ends and g is dropped: the drop
\* validates once more; optimistic_error.rs:48-63  catch comes back
RepeatBodyEnd(t) ==
    /\ pc[t] = "r_checked"
    /\ LET raises == GuardODropRaises(Validate(t), IsUnwinding(pc[t])) IN
        /\ RepeatAfterCatch(t, IF raises THEN "optimistic" ELSE "value", x[t])
        /\ Quiet(t, hist[t], IF raises THEN "val_err" ELSE "val_ok", FALSE)
    /\ UNCHANGED <<debug_assertions, rd, others, ret, track_thread_locks, thread_locks, word, free_list, owner, assert_failed>>

\* the failure of check() unwinds the body: g is dropped on the way
\* (buffer_manager.rs:237-248), catch_unwind stops the unwind and catch comes
\* back with Err
RepeatCatch(t) ==
    /\ pc[t] = "r_unwind"
    /\ IF GuardODropRaises(Validate(t), IsUnwinding(pc[t]))
       THEN /\ ToPanic(t)
            /\ assert_failed' = assert_failed \cup {"second_failure"}
       ELSE /\ RepeatAfterCatch(t, "optimistic", 0)
            /\ UNCHANGED assert_failed
    /\ Quiet(t, hist[t], res[t], FALSE)
    /\ UNCHANGED <<debug_assertions, rd, others, ret, track_thread_locks, thread_locks, word, free_list, owner>>

\* lib.rs:51  return x
RepeatReturn(t) ==
    /\ pc[t] = "r_ret"
    /\ ToIdle(t)
    /\ Quiet(t, NoHist, "none", FALSE)
    /\ UNCHANGED <<debug_assertions, rd, others, ret, track_thread_locks, thread_locks, word, free_list, owner, assert_failed>>

RepeatStep(t) ==
    \/ RepeatCall(t)
    \/ RepeatLoad(t)
    \/ RepeatCheck(t)
    \/ RepeatBodyEnd(t)
    \/ RepeatCatch(t)
    \/ RepeatReturn(t)

\* ------------------------------------------------------------ specification
\* alloc and dealloc alone: a thread allocates, then drops the guard (the page
\* stays allocated) or deallocs it
AllocStep(t) ==
    \/ AllocPop(t)
    \/ AllocEmpty(t)
    \/ AllocForce(t)
    \/ GuardXUnlock(t)
    \/ DeallocUnlock(t)
    \/ DeallocPush(t)

\* optimistic lock coupling: besides alloc and dealloc, every lock is reached
\* through lock_optimistic and an upgrade of the SimpleGuardO
OlcStep(t) ==
    \/ AllocStep(t)
    \/ LockOptimisticCall(t)
    \/ LockOptimisticRetry(t)
    \/ GuardOCheck(t)
    \/ GuardOEnd(t)
    \/ GuardODrop(t)
    \/ UnwindDropO(t)
    \/ GuardOReleaseUnchecked(t)
    \/ UpgradeShared(t)
    \/ SharedFilterFail(t)
    \/ SharedCas(t)
    \/ SharedWait(t)
    \/ GuardSUnlock(t)
    \/ UpgradeExclusive(t)
    \/ ExclusiveRetry(t)
    \/ ExclusiveFetchOr(t)
    \/ ExclusiveFetchAnd(t)
    \/ ExclusiveDrain(t)

\* ---- OPtr: bounds-checked unaligned reads (o_ptr.rs)

UsizeRange == 0..(2 ^ WordBits - 1)
FrameSizes == 1..MaxFrame

\* usize addition overflows
AddOverflows(a, b) == a + b >= 2 ^ WordBits

\* usize addition in a build without overflow checks
WrappingAdd(a, b) == (a + b) % (2 ^ WordBits)

\* o_ptr.rs:78, 86  offset + n <= size_of::<T>(), evaluated in usize: with
\* overflow checks (the default of builds with debug assertions) an
\* overflowing sum panics, without them it wraps; "bytes" is the read of
\* the n bytes at p + offset, "fail" is O::optimistic_fail()
ReadUnalignedOutcome(size, offset, n, checks) ==
    IF AddOverflows(offset, n) /\ checks THEN "overflow_panic"
    ELSE IF WrappingAdd(offset, n) <= size THEN "bytes"
    ELSE "fail"

ReadUnaligned(size, offset, n) ==
    /\ rd' = [n |-> n, size |-> size, offset |-> offset,
              out |-> ReadUnalignedOutcome(size, offset, n, debug_assertions)]
    /\ UNCHANGED <<debug_assertions, others, ret, track_thread_locks,
                   thread_locks, word, free_list, pc, pid, x, ver, filt, written, owner,
                   snap_alloc, hist, res, assert_failed>>

\* o_ptr.rs:77-83
ReadUnalignedNonatomicU16 ==
    \E size \in FrameSizes, offset \in UsizeRange : ReadUnaligned(size, offset, 2)

\* o_ptr.rs:85-91
ReadUnalignedNonatomicU64 ==
    \E size \in FrameSizes, offset \in UsizeRange : ReadUnaligned(size, offset, 8)

\* writes through a SimpleGuardX and failures raised while it is alive
GuardXStep(t) ==
    \/ GuardXDerefMut(t)
    \/ GuardXResetWritten(t)
    \/ GuardXRaise(t)
    \/ UnwindDropX(t)

\* ---- many shared holders: the count near COUNT_MASK

\* lib.rs:59-61, buffer_manager.rs:96-99  lock_shared(pid) with no filter, by
\* a thread the page has been handed to
LockSharedDirect(t) ==
    /\ pc[t] = "idle"
    /\ \E p \in Pages : Local(t, "s_loop", p, word[p], 0, AnyVersion)
    /\ Quiet(t, NoHist, "none", FALSE)
    /\ UNCHANGED <<debug_assertions, rd, others, ret, track_thread_locks, thread_locks, word, free_list, owner, assert_failed>>

\* seqlock.rs:64-72  one uncontended lock_shared(()) on the word w: it
\* increments when the test of line 65 lets it
LockSharedOnce(w) == IF CanIncrementShared(w) THEN SharedIncrement(w) ELSE w

\* wk[2] such calls one after another on the word wk[1] (the first half of
\* them, then the rest)
LockSharedTimes[wk \in Nat \X Nat] ==
    IF wk[2] = 0 THEN wk[1]
    ELSE IF wk[2] = 1 THEN LockSharedOnce(wk[1])
    ELSE LockSharedTimes[<<LockSharedTimes[<<wk[1], wk[2] \div 2>>],
                           wk[2] - wk[2] \div 2>>]

OthersChange(p, w) ==
    /\ word' = [word EXCEPT ![p] = w]
    /\ others' = [others EXCEPT ![p] = others[p] + w - word[p]]
    /\ UNCHANGED <<debug_assertions, rd, ret, track_thread_locks, thread_locks,
                   free_list, pc, pid, x, ver, filt, written, owner,
                   snap_alloc, hist, res, assert_failed>>

\* threads outside Threads take shared guards of an unlocked page until the
\* count is at COUNT_MASK or a little below it
OthersFill ==
    \E p \in Pages : \E below \in 0..MaxBelowMask :
        /\ word[p] = 0
        /\ OthersChange(p, LockSharedTimes[<<word[p], COUNT_MASK - below>>])

\* one more lock_shared(()) of such a thread
OthersLockShared ==
    \E p \in Pages :
        /\ others[p] > 0
        /\ CanIncrementShared(word[p])
        /\ OthersChange(p, SharedIncrement(word[p]))

\* seqlock.rs:79-84  unlock_shared of such a thread
OthersUnlockShared ==
    \E p \in Pages :
        /\ others[p] > 0
        /\ AndCount(word[p]) > COUNT_MASK - MaxBelowMask
        /\ OthersChange(p, SharedDecrement(word[p]))

CountStep(t) ==
    \/ LockSharedDirect(t)
    \/ SharedCas(t)
    \/ SharedWait(t)
    \/ GuardSUnlock(t)

\* ---- a thread acquires a lock it already holds (feature track-thread-locks)

AcquireModes == {"optimistic", "shared", "exclusive"}

\* seqlock.rs:61, 93, 141  the lock_track_check that opens lock_shared,
\* lock_exclusive and lock_optimistic, called by t on the lock whose guard
\* it holds: with an entry in the map the call panics there and the guard
\* is dropped by the unwind; without one the call goes on to the lock word
Reacquire(t) ==
    /\ track_thread_locks
    /\ pc[t] \in {"holdS", "holdX"}
    /\ \E mode \in AcquireModes :
          IF LockTrackCheck(thread_locks[t][pid[t]])
          THEN /\ pc' = [pc EXCEPT ![t] = IF pc[t] = "holdS" THEN "unwindS"
                                          ELSE "unwindX"]
               /\ res' = [res EXCEPT ![t] = "panic"]
          ELSE /\ res' = [res EXCEPT ![t] = "past_check"]
               /\ UNCHANGED pc
    /\ UNCHANGED <<debug_assertions, rd, others, ret, track_thread_locks, thread_locks, word,
                   free_list, pid, x, ver, filt, written, owner, snap_alloc,
                   hist, assert_failed>>

\* buffer_manager.rs:250-254  Drop for SimpleGuardS in the unwind of a panic
UnwindDropS(t) ==
    /\ pc[t] = "unwindS"
    /\ LET p == pid[t]
           fetched == word[p]
       IN
        /\ LockTrackSet(t, p, NoEntry)
        /\ word' = [word EXCEPT ![p] = SharedDecrement(fetched)]
        /\ ret' \in ReturnAfter(p, UnlockSharedReturn(fetched), FALSE)
        /\ DebugAssert(t, UnlockSharedAssert(fetched), "unlock_shared", ToPanic(t))
        /\ Ghost(t, p, FALSE, FALSE, TRUE, NoHist, "none", FALSE)
    /\ UNCHANGED <<debug_assertions, rd, others, track_thread_locks, free_list, owner>>

TrackStep(t) ==
    \/ Reacquire(t)
    \/ UnwindDropS(t)

\* the whole interface: the owner of a page also locks it without a snapshot
ThreadStep(t) ==
    \/ OlcStep(t)
    \/ GuardXStep(t)
    \/ LockSharedCall(t)
    \/ LockExclusiveCall(t)

\* a reader: snapshots, validations and shared locks through the upgrade
ReaderStep(t) ==
    \/ LockOptimisticCall(t)
    \/ LockOptimisticRetry(t)
    \/ GuardODrop(t)
    \/ UnwindDropO(t)
    \/ UpgradeShared(t)
    \/ SharedFilterFail(t)
    \/ SharedCas(t)
    \/ SharedWait(t)
    \/ GuardSUnlock(t)

\* the failed assertion of a drop inside an unwind aborts the process
Aborted == "written" \in assert_failed

Next == \E t \in Workers : ~Aborted /\ ThreadStep(t)
Spec == Init /\ [][Next]_vars

NextOlc == \E t \in Workers : OlcStep(t)
SpecOlc == Init /\ [][NextOlc]_vars

\* optimistic lock coupling by the workers beside the readers
NextRd ==
    \/ \E t \in Workers : OlcStep(t)
    \/ \E t \in Readers : ReaderStep(t)
SpecRd == Init /\ [][NextRd]_vars

\* the whole interface in a build with the feature track-thread-locks
NextTrack == \E t \in Workers : ~Aborted /\ (ThreadStep(t) \/ TrackStep(t))

SpecTrack == InitTrack /\ [][NextTrack]_vars

\* shared locking alone, with many holders
NextCount ==
    \/ \E t \in Threads : CountStep(t)
    \/ OthersFill
    \/ OthersLockShared
    \/ OthersUnlockShared

SpecCount == Init /\ [][NextCount]_vars

\* the whole interface, the client keeping versions that releases return
SpecRet == InitRet /\ [][Next]_vars

\* reads through an OPtr alone
NextRead == ReadUnalignedNonatomicU16 \/ ReadUnalignedNonatomicU64

SpecRead == Init /\ [][NextRead]_vars

NextAlloc == \E t \in Workers : AllocStep(t)
SpecAlloc == Init /\ [][NextAlloc]_vars

\* writers under optimistic lock coupling beside callers of repeat
NextRepeat == \E t \in Workers : (OlcStep(t) \/ RepeatStep(t))
SpecRepeat == Init /\ [][NextRepeat]_vars

\* the scheduler runs every thread that is inside repeat, and every thread
\* that is inside a lock, alloc or dealloc call or unwinding; every shared
\* and exclusive section is released
RepeatRunning(t) == pc[t] # "idle" /\ RepeatStep(t)
InCall(t) ==
    \/ AllocForce(t)
    \/ DeallocPush(t)
    \/ LockOptimisticRetry(t)
    \/ UnwindDropO(t)
    \/ SharedFilterFail(t)
    \/ SharedCas(t)
    \/ ExclusiveRetry(t)
    \/ ExclusiveFetchOr(t)
    \/ ExclusiveFetchAnd(t)
    \/ ExclusiveDrain(t)
Releases(t) == GuardXUnlock(t) \/ DeallocUnlock(t) \/ GuardSUnlock(t)
FairRepeat ==
    /\ SpecRepeat
    /\ \A t \in Workers :
        /\ WF_vars(RepeatRunning(t))
        /\ WF_vars(InCall(t))
        /\ WF_vars(Releases(t))

\* a thread inside a call, or holding a guard, is scheduled again and again
Running(t) ==
    /\ pc[t] # "idle"
    /\ IF t \in Workers THEN ThreadStep(t) ELSE ReaderStep(t)
FairSpec == Spec /\ \A t \in Threads : WF_vars(Running(t))

\* ============================================================== properties

\* C1: at most one thread holds exclusive access (a SimpleGuardX) on a pid,
\* whichever of lock_exclusive, the GuardO -> GuardX upgrade and alloc gave it.
C1_MutualExclusion ==
    \A p \in Pages : Cardinality({t \in Threads : HoldsX(t, p)}) <= 1

\* C9: the debug_assert! in force_lock_exclusive never finds the exclusive flag
\* or a shared holder on the index alloc popped.
C9_ForceLockAssertHolds ==
    "force_lock_exclusive" \notin assert_failed

\* C2: no thread holds a SimpleGuardX on a pid while another holds a
\* SimpleGuardS on it, and exclusive access is held only on a word whose
\* exclusive flag is set and whose shared count is zero.
C2_ExclusiveExcludesShared ==
    \A p \in Pages :
        (\E t \in Threads : HoldsX(t, p)) =>
            /\ \A u \in Threads : ~HoldsS(u, p)
            /\ AndExcl(word[p]) # 0
            /\ AndCount(word[p]) = 0

\* C3: a validation (check, release or drop of a SimpleGuardO) succeeds only
\* if no thread held exclusive access to the pid at any moment since the
\* snapshot.
C3_ValidationSound ==
    \A t \in Threads : res[t] = "val_ok" => ~hist[t].held

\* C7: a lock_shared(()) that had to wait returns with the shared lock
\* (exclusive acquisitions are finitely many, every holder releases).
C7_SharedAcquires ==
    \A t \in Threads : (pc[t] = "s_loop" /\ ~filt[t].must) ~> (pc[t] = "holdS")

\* C7, as a property of single states: a lock_shared(()) whose word can be
\* acquired (flag clear, count below COUNT_MASK) is able to go on.
C7_SharedRetriesFresh ==
    \A t \in Threads :
        (pc[t] = "s_loop" /\ ~filt[t].must /\ CanIncrementShared(word[pid[t]]))
            => ENABLED <<SharedCas(t)>>_vars

\* ------------------------------------------ steps named by the properties
\* t executes unlock_exclusive (release, drop or dealloc of its SimpleGuardX)
UnlockExclusiveStep(t) ==
    \/ pc[t] = "holdX" /\ pc'[t] \notin {"holdX", "unwindX"}
    \/ pc[t] = "unwindX" /\ pc'[t] # "unwindX" /\ ~written[t]
\* t executes try_unlock_optimistic (check, release or drop of its SimpleGuardO)
ValidationStep(t) ==
    /\ pc[t] = "holdO"
    /\ res'[t] \in {"val_ok", "val_err"}
    /\ (res'[t] # res[t] \/ pc'[t] # pc[t])
\* t executes a load of lock_optimistic
OptimisticLoadStep(t) ==
    /\ pc[t] \in {"idle", "o_load"}
    /\ pc'[t] \in {"holdO", "o_load"}
    /\ pc'[t] # pc[t]
\* t executes the fetch_or of lock_exclusive
FetchOrStep(t) == pc[t] = "x_or" /\ pc'[t] # "x_or"
SharedHolders(p) == {t \in Threads : HoldsS(t, p)}

\* C4: a validation succeeds whenever, at its load, the exclusive flag is
\* clear and the version equals the snapshot, whatever the shared count; so a
\* validation fails only if, since the snapshot, some fetch_or set out to
\* take the lock or some thread held it.
C4_ValidationComplete ==
    /\ [][\A t \in Threads :
            (/\ ValidationStep(t)
             /\ AndExcl(word[pid[t]]) = 0
             /\ VersionOf(word[pid[t]]) = ver[t]) => res'[t] = "val_ok"]_vars
    /\ [](\A t \in Threads :
            res[t] = "val_err" => (hist[t].tried \/ hist[t].held))

\* a validation succeeded although shared locks came and went since the snapshot
C4_Witness ==
    \E t \in Threads :
        /\ pc[t] = "holdO"
        /\ res[t] = "val_ok"
        /\ hist[t].shr
        /\ AndCount(word[pid[t]]) > 0

\* C5: an unlock_exclusive on a word whose exclusive flag is set clears the
\* flag, keeps the shared count and adds exactly one to the version, in one
\* step; the version of a word never decreases.
C5_UnlockBumpsVersion ==
    /\ [][\A t \in Threads :
            (UnlockExclusiveStep(t) /\ AndExcl(word[pid[t]]) # 0) =>
                /\ AndExcl(word'[pid[t]]) = 0
                /\ AndCount(word'[pid[t]]) = AndCount(word[pid[t]])
                /\ VersionOf(word'[pid[t]]) = VersionOf(word[pid[t]]) + 1]_vars
    /\ [][\A p \in Pages : VersionOf(word'[p]) >= VersionOf(word[p])]_vars

\* two exclusive sections have been released on a page
C5_Witness ==
    \E p \in Pages : VersionOf(word[p]) = 2 /\ AndExcl(word[p]) = 0

\* C6: only unlock_exclusive changes the version field of a word; the loads
\* of lock_optimistic and try_unlock_optimistic leave every word as it is.
C6_VersionFrame ==
    /\ [][\A p \in Pages :
            VersionOf(word'[p]) # VersionOf(word[p]) =>
                \E t \in Threads : pid[t] = p /\ UnlockExclusiveStep(t)]_vars
    /\ [][\A t \in Threads :
            (OptimisticLoadStep(t) \/ ValidationStep(t)) => word' = word]_vars

\* after an exclusive release, a shared lock and an optimistic snapshot are
\* held on a page whose version is still the snapshot
C6_Witness ==
    \E t, u \in Threads :
        /\ pc[t] = "holdS"
        /\ pc[u] = "holdO"
        /\ pid[u] = pid[t]
        /\ ver[u] = VersionOf(word[pid[t]])
        /\ ver[u] > 0

\* C8: the shared count of a word is the number of SimpleGuardS alive on
\* the pid; with none alive, a lock_exclusive whose fetch_or takes the flag
\* returns at once, without the drain loop.
C8_SharedAccounting ==
    /\ [](\A p \in Pages : AndCount(word[p]) = Cardinality(SharedHolders(p)))
    /\ [][\A t \in Threads :
            (/\ FetchOrStep(t)
             /\ SharedHolders(pid[t]) = {}
             /\ AndExcl(word[pid[t]]) = 0
             /\ FilterCheck(filt[t], VersionOf(word[pid[t]])))
                => pc'[t] = "holdX"]_vars

\* two SimpleGuardS alive on one pid
C8_Witness ==
    \E p \in Pages : Cardinality(SharedHolders(p)) = 2 /\ AndCount(word[p]) = 2

\* the indices in the free list
FreeSet == {free_list[i] : i \in 1..Len(free_list)}
\* no thread is inside a call or holds a guard
Quiescent == \A t \in Threads : pc[t] \in {"idle", "panicked"}

UpgradeExclusiveReturns(t) ==
    /\ pc[t] \in {"x_or", "x_drain"}
    /\ filt[t].must
    /\ pc'[t] = "holdX"
\* t executes a load of lock_exclusive(self.version) that finds another version
UpgradeExclusiveRejected(t) ==
    /\ \/ pc[t] = "x_load" /\ filt[t].must
       \/ pc[t] = "holdO" /\ pc'[t] \in {"x_load", "x_or", "unwind"} /\ res'[t] # "val_err"
    /\ pc'[t] # pc[t]
    /\ VersionOf(word[pid[t]]) # ver[t]

\* C11: the GuardO -> GuardX upgrade returns a SimpleGuardX only on a word
\* whose version equals the snapshot and whose flag it holds, with no
\* exclusive section completed on the pid since the snapshot; a load that
\* finds another version raises an optimistic failure and the thread holds
\* no exclusive lock.
C11_UpgradeExclusiveAtomic ==
    /\ [][\A t \in Threads :
            UpgradeExclusiveReturns(t) =>
                /\ VersionOf(word'[pid[t]]) = ver[t]
                /\ AndExcl(word'[pid[t]]) # 0
                /\ ~hist[t].done]_vars
    /\ [][\A t \in Threads :
            UpgradeExclusiveRejected(t) =>
                /\ pc'[t] = "unwind"
                /\ res'[t] = "up_err"
                /\ word' = word]_vars

\* the same, in a build with debug assertions
C11_InDebugBuild ==
    [][debug_assertions => \A t \in Threads :
            UpgradeExclusiveReturns(t) =>
                /\ VersionOf(word'[pid[t]]) = ver[t]
                /\ AndExcl(word'[pid[t]]) # 0
                /\ ~hist[t].done]_vars

\* t returns from the GuardO -> GuardS upgrade with the SimpleGuardS
UpgradeSharedReturns(t) == pc[t] = "s_loop" /\ filt[t].must /\ pc'[t] = "holdS"
\* the lock_shared(self.version) of t's upgrade fails its filter
UpgradeSharedRejected(t) == pc[t] = "s_loop" /\ filt[t].must /\ pc'[t] = "unwind"
\* the unwind of t's failed upgrade drops the SimpleGuardO
UpgradeUnwinds(t) == pc[t] = "unwind" /\ res[t] = "up_err" /\ pc'[t] # "unwind"

\* C12, what the upgrade does when it returns or raises: it returns only by
\* one compare-and-swap that adds one to the count of a word with the
\* snapshot's version and a clear flag, with no validation afterwards; a
\* rejection writes nothing and the drop of the SimpleGuardO in the unwind
\* raises no second failure.
C12_UpgradeSharedSteps ==
    /\ [][\A t \in Threads :
            UpgradeSharedReturns(t) =>
                /\ VersionOf(word[pid[t]]) = filt[t].v
                /\ AndExcl(word[pid[t]]) = 0
                /\ word'[pid[t]] = word[pid[t]] + 1
                /\ res'[t] = "none"]_vars
    /\ [][\A t \in Threads :
            UpgradeSharedRejected(t) => (word' = word /\ res'[t] = "up_err")]_vars
    /\ [][\A t \in Threads :
            UpgradeUnwinds(t) => (pc'[t] = "idle" /\ word' = word)]_vars
    /\ []("second_failure" \notin assert_failed)

\* C12: the GuardO -> GuardS upgrade returns as C12_UpgradeSharedSteps says,
\* and when the version of the word differs from the snapshot it raises an
\* optimistic failure: the call is able to fail its filter, or to execute the
\* compare-and-swap that reloads the word.
C12_UpgradeShared ==
    /\ C12_UpgradeSharedSteps
    /\ [](\A t \in Threads :
            (pc[t] = "s_loop" /\ filt[t].must /\ VersionOf(word[pid[t]]) # filt[t].v)
                => ENABLED <<SharedFilterFail(t) \/ SharedCas(t)>>_vars)

\* the SimpleGuardO of t is dropped, or released, and t is not unwinding
DropOStep(t) ==
    /\ pc[t] = "holdO"
    /\ pc'[t] = "idle"
    /\ res'[t] \in {"val_ok", "val_err"}
\* the SimpleGuardO of t is dropped while t unwinds
UnwindDropOStep(t) == pc[t] = "unwind" /\ pc'[t] # "unwind"

\* C14: a SimpleGuardO dropped outside an unwind raises an optimistic failure
\* exactly when its snapshot does not validate; dropped during an unwind it is
\* silent, whatever the word, so no second failure is ever raised on a stack;
\* release_unchecked and a returning upgrade consume the guard without a
\* validation.
C14_GuardODropSafe ==
    /\ [][\A t \in Threads :
            DropOStep(t) =>
                (res'[t] = "val_err" <=>
                    ~(AndExcl(word[pid[t]]) = 0 /\ VersionOf(word[pid[t]]) = ver[t]))]_vars
    /\ [][\A t \in Threads :
            UnwindDropOStep(t) =>
                (pc'[t] = "idle" /\ res'[t] = res[t] /\ word' = word)]_vars
    /\ [][\A t \in Threads :
            (UpgradeSharedReturns(t) \/ UpgradeExclusiveReturns(t)
                \/ (pc[t] = "holdO" /\ pc'[t] = "idle" /\ ~DropOStep(t)))
            => res'[t] = "none"]_vars
    /\ [](\A t \in Threads : pc[t] = "panicked" => "second_failure" \notin assert_failed)

\* a failed upgrade has unwound through the drop of its stale SimpleGuardO
\* (the version of the word is not the snapshot's) and reached the caller
C14_Witness ==
    \E t \in Threads :
        /\ pc[t] = "idle"
        /\ res[t] = "up_err"
        /\ \E p \in Pages : VersionOf(word[p]) > 1

\* an invocation of the body of t's repeat raises an optimistic failure
RepeatBodyFails(t) == pc[t] \in {"r_holdO", "r_checked"} /\ res'[t] = "val_err"
\* t's repeat returns to its caller
RepeatReturns(t) == pc[t] # "r_ret" /\ pc'[t] = "r_ret"

\* C13: repeat invokes the body again after every invocation that raised an
\* optimistic failure, returns only from an invocation that completed without
\* one, with the value of that invocation, and no optimistic failure of the
\* body reaches repeat's caller.
C13_RepeatIsRetryBoundary ==
    /\ [][\A t \in Threads :
            RepeatBodyFails(t) => pc'[t] \in {"r_unwind", "r_load"}]_vars
    /\ [][\A t \in Threads :
            (pc[t] = "r_unwind" /\ pc'[t] # "r_unwind") => pc'[t] = "r_load"]_vars
    /\ [][\A t \in Threads :
            RepeatReturns(t) =>
                /\ pc[t] = "r_checked"
                /\ res'[t] = "val_ok"
                /\ x'[t] = ver[t]]_vars
    /\ [][\A t \in Threads :
            (pc[t] = "r_ret" /\ pc'[t] # "r_ret") => pc'[t] = "idle"]_vars
    /\ [](\A t \in Threads : pc[t] = "r_ret" => res[t] = "val_ok")

\* an invocation has failed, the failure was caught and the body runs again
C13_Witness ==
    \E t \in Threads : pc[t] = "r_load" /\ res[t] = "val_err"

\* t is inside a call of repeat
InRepeat(t) == pc[t] \in {"r_load", "r_holdO", "r_checked", "r_unwind"}

\* C18: with finitely many exclusive sections (the versions are bounded),
\* each of them released, and fair scheduling, every call of repeat with the
\* body { lock_optimistic(pid); read; check } returns.
C18_RepeatReturns ==
    \A t \in Threads : InRepeat(t) ~> (pc[t] = "r_ret")

\* the same, in a build with debug assertions
C18_InDebugBuild ==
    \A t \in Threads : (debug_assertions /\ InRepeat(t)) ~> (pc[t] = "r_ret")

\* some thread holds exclusive access to p, or has set the flag of p inside
\* lock_exclusive and not yet returned or cleared it
ExclusiveHolderRemains(p) ==
    \E u \in Threads : pid[u] = p /\ pc[u] \in {"holdX", "unwindX", "x_and", "x_drain"}

\* C18, on single states: once no exclusive holder remains on the pid, the
\* lock_optimistic of the body obtains a snapshot (the flag is clear).
C18_SnapshotOnceReleased ==
    \A t \in Threads :
        (pc[t] = "r_load" /\ ~ExclusiveHolderRemains(pid[t]))
            => AndExcl(word[pid[t]]) = 0

\* the same, in a build with debug assertions
C18_SnapshotInDebugBuild ==
    debug_assertions => C18_SnapshotOnceReleased

\* a SimpleGuardX of t is dropped, released or deallocated by the step
GuardXDropStep(t) ==
    \/ pc[t] = "holdX" /\ pc'[t] \notin {"holdX", "unwindX"}
    \/ pc[t] = "unwindX" /\ pc'[t] # "unwindX"

\* the step acquires a SimpleGuardX for t
GuardXAcquireStep(t) == pc[t] \notin {"holdX", "unwindX"} /\ pc'[t] = "holdX"

\* the drop failed its assertion and released nothing
GuardXDropFailed(t) ==
    /\ pc'[t] = "panicked"
    /\ "written" \in assert_failed'
    /\ word' = word

\* the drop released the lock: flag cleared, version bumped by one
GuardXDropReleased(t) ==
    /\ "written" \notin assert_failed'
    /\ AndExcl(word'[pid[t]]) = 0
    /\ AndCount(word'[pid[t]]) = AndCount(word[pid[t]])
    /\ VersionOf(word'[pid[t]]) = VersionOf(word[pid[t]]) + 1

\* the written flag and the assertion of the drop
GuardXWritten(t) ==
    /\ GuardXAcquireStep(t) => ~written'[t]
    /\ GuardXDerefMut(t) => written'[t]
    /\ GuardXResetWritten(t) => ~written'[t]
    /\ (pc[t] = "holdX" /\ pc'[t] = "unwindX") => written'[t] = written[t]
    /\ GuardXDropStep(t) =>
           (GuardXDropFailed(t) <=> (IsUnwinding(pc[t]) /\ written[t]))

\* C15: written is false at acquisition, true after a mutable deref, false
\* after reset_written; a drop during an unwind fails its assertion exactly
\* when written is true, and every drop that does not fail releases the
\* lock with unlock_exclusive: flag cleared, version bumped by one.
C15_GuardXDrop ==
    [][\A t \in Threads :
          /\ GuardXWritten(t)
          /\ (GuardXDropStep(t) /\ ~GuardXDropFailed(t)) => GuardXDropReleased(t)]_vars

\* C15 in a build with debug assertions
C15_InDebugBuild ==
    [][debug_assertions =>
          \A t \in Threads :
              /\ GuardXWritten(t)
              /\ (GuardXDropStep(t) /\ ~GuardXDropFailed(t)) =>
                     GuardXDropReleased(t)]_vars

\* C15, the written flag and the assertion alone, in every build
C15_WrittenAssertion == [][\A t \in Threads : GuardXWritten(t)]_vars

\* the n bytes [offset, offset + n) lie inside the frame
InsideFrame(size, offset, n) == offset + n <= size

\* C16: a read of n = 2 or 8 bytes at any usize offset over a frame of size
\* S returns the bytes only when [offset, offset + n) lies inside the
\* frame and otherwise raises an optimistic failure; it never reads
\* outside the frame and ends in nothing else.
C16_BoundedReads ==
    rd.out # "none" =>
        /\ rd.out \in {"bytes", "fail"}
        /\ rd.out = "bytes" <=> InsideFrame(rd.size, rd.offset, rd.n)

\* C16 for the offsets whose sum with n does not overflow usize
C16_WithoutOverflow ==
    (rd.out # "none" /\ ~AddOverflows(rd.offset, rd.n)) =>
        /\ rd.out \in {"bytes", "fail"}
        /\ rd.out = "bytes" <=> InsideFrame(rd.size, rd.offset, rd.n)

\* the example of the frame's last 8 bytes and of 2 bytes further
C16_Example ==
    /\ ReadUnalignedOutcome(MaxFrame, MaxFrame - 8, 8, debug_assertions) = "bytes"
    /\ ReadUnalignedOutcome(MaxFrame, MaxFrame - 6, 8, debug_assertions) = "fail"

\* the mode in which a live thread holds the lock of page p
HeldMode(t, p) ==
    IF HoldsX(t, p) THEN "exclusive"
    ELSE IF HoldsS(t, p) THEN "shared"
    ELSE NoEntry

\* t calls an acquisition on the lock whose guard it holds
ReacquireStep(t) ==
    /\ pc[t] \in {"holdS", "holdX"}
    /\ res'[t] \in {"panic", "past_check"}
    /\ res[t] \notin {"panic", "past_check"}

\* C17: with track-thread-locks, the map of a live thread has an entry for
\* a lock exactly while the thread holds it shared or exclusive, with that
\* mode (nothing is set by a rejected acquisition or by lock_optimistic);
\* an acquisition on a lock the thread has an entry for panics before it
\* modifies the lock word.
C17_TrackThreadLocks ==
    /\ [](track_thread_locks =>
            \A t \in Threads : \A p \in Pages :
                pc[t] # "panicked" => thread_locks[t][p] = HeldMode(t, p))
    /\ [][\A t \in Threads :
            (ReacquireStep(t) /\ thread_locks[t][pid[t]] # NoEntry) =>
                /\ res'[t] = "panic"
                /\ IsUnwinding(pc'[t])
                /\ word' = word]_vars

\* a thread holding a lock shared has panicked in a second acquisition on
\* it, its guard not yet dropped, while another thread holds the same lock
\* shared
C17_Witness ==
    \E t \in Threads : \E u \in Threads \ {t} :
        /\ track_thread_locks
        /\ pc[t] = "unwindS" /\ res[t] = "panic"
        /\ thread_locks[t][pid[t]] = "shared"
        /\ pc[u] = "holdS" /\ pid[u] = pid[t]
        /\ thread_locks[u][pid[u]] = "shared"

\* a lock_exclusive on page p is between its fetch_or and the fetch_and
\* that clears the flag it set
InFlagWindow(p) == \E t \in Threads : pc[t] = "x_and" /\ pid[t] = p

\* t executes the fetch_and of lock_exclusive
FetchAndStep(t) == pc[t] = "x_and" /\ pc'[t] # "x_and"

\* u validates, inside the window, a snapshot equal to the current version
ValidatesInWindow(u) ==
    /\ ValidationStep(u)
    /\ InFlagWindow(pid[u])
    /\ ver[u] = VersionOf(word[pid[u]])

\* C19 as stated: inside the window between the fetch_or and the fetch_and
\* of a rejected lock_exclusive, a try_unlock_optimistic(v) with v the
\* lock's current version succeeds.
C19_NoMismatchInWindow ==
    [][\A u \in Threads : ValidatesInWindow(u) => res'[u] = "val_ok"]_vars

\* C19 amended: the fetch_or and the fetch_and of the call leave the version
\* unchanged, but a try_unlock_optimistic(v) with v the lock's current
\* version, made inside the window, fails while the flag is set and
\* succeeds only when the flag is clear.
C19_TransientFlagFailsValidation ==
    /\ [][\A t \in Threads :
            (FetchOrStep(t) \/ FetchAndStep(t)) =>
                VersionOf(word'[pid[t]]) = VersionOf(word[pid[t]])]_vars
    /\ [][\A u \in Threads :
            ValidatesInWindow(u) =>
                (res'[u] = "val_ok" <=> AndExcl(word[pid[u]]) = 0)]_vars

\* a reader's validation of the current version has failed while another
\* thread stands between its fetch_or and its fetch_and
C19_Witness ==
    \E t \in Threads : \E u \in Threads \ {t} :
        /\ pc[t] = "x_and"
        /\ pc[u] = "unwind" /\ res[u] = "val_err"
        /\ pid[u] = pid[t]
        /\ ver[u] = VersionOf(word[pid[u]])
        /\ AndExcl(word[pid[u]]) # 0
        /\ ~hist[u].held

\* a step of t inside lock_shared that does not return the lock
LockSharedStep(t) ==
    \/ LockSharedCall(t)
    \/ UpgradeShared(t)
    \/ SharedCas(t) /\ pc'[t] # "holdS"
    \/ SharedFilterFail(t)

\* lock_exclusive(v) of t returns the error of its filter
ExclusiveRejectStep(t) ==
    /\ pc[t] \in {"holdO", "x_load"}
    /\ pc'[t] = "unwind"
    /\ res'[t] = "up_err"

\* another thread than t owns the exclusive flag of p: it holds a
\* SimpleGuardX, or it has set the flag inside lock_exclusive
OtherFlagOwner(t, p) ==
    \E u \in Threads \ {t} :
        pid[u] = p /\ pc[u] \in {"holdX", "unwindX", "x_and", "x_drain"}

\* version and shared count of t's page are left as they are
SameVersionAndCount(t) ==
    /\ VersionOf(word'[pid[t]]) = VersionOf(word[pid[t]])
    /\ AndCount(word'[pid[t]]) = AndCount(word[pid[t]])

\* what a failing lock_shared / lock_exclusive does to the lock word
FilterRejection(t) ==
    /\ LockSharedStep(t) => word' = word
    /\ FetchOrStep(t) =>
          /\ SameVersionAndCount(t)
          /\ AndExcl(word[pid[t]]) # 0 => (word' = word /\ pc'[t] # "x_and")
          /\ (AndExcl(word[pid[t]]) = 0
               /\ ~FilterCheck(filt[t], VersionOf(word[pid[t]]))) => pc'[t] = "x_and"
    /\ FetchAndStep(t) =>
          /\ SameVersionAndCount(t)
          /\ AndExcl(word[pid[t]]) # 0
          /\ AndExcl(word'[pid[t]]) = 0
          /\ ~OtherFlagOwner(t, pid[t])
    /\ ExclusiveRejectStep(t) => word' = word
    /\ (ExclusiveRetry(t) /\ ~FilterCheck(filt[t], VersionOf(word[pid[t]])))
          => ExclusiveRejectStep(t)
    /\ (pc[t] = "s_loop" /\ pc'[t] # "s_loop"
          /\ ~FilterCheck(filt[t], VersionOf(x[t])))
          => (pc'[t] = "unwind" /\ res'[t] = "up_err")

\* C20: a lock_shared(v) that fails its filter has written nothing to the
\* lock word; a lock_exclusive(v) that fails has cleared the flag exactly
\* when it had set it, never a flag another thread owns, has changed
\* neither version nor shared count and returns the error holding nothing;
\* both return the error once the version they observe differs from v.
C20_FilterRejection ==
    [][\A t \in Threads : FilterRejection(t)]_vars

\* C20 in a build with debug assertions
C20_InDebugBuild ==
    [][debug_assertions => \A t \in Threads : FilterRejection(t)]_vars

\* the shared guards alive on page p
SharedGuards(p) == others[p] + Cardinality(SharedHolders(p))

\* t's compare_exchange of lock_shared succeeds
SharedIncrementStep(t) == pc[t] = "s_loop" /\ pc'[t] = "holdS"

\* C21: the count equals the number of shared guards, which is at most
\* COUNT_MASK: no increment carries into the exclusive bit or the version
\* (nothing else sets them here) and no decrement borrows; an increment
\* happens only from a count below COUNT_MASK; a lock_shared that has read
\* count = COUNT_MASK does not increment.
C21_CountSaturation ==
    /\ [](\A p \in Pages :
            /\ SharedGuards(p) <= COUNT_MASK
            /\ word[p] = SharedGuards(p))
    /\ [][\A t \in Threads :
            SharedIncrementStep(t) =>
                /\ AndCount(word[pid[t]]) < COUNT_MASK
                /\ AndNotCount(word'[pid[t]]) = AndNotCount(word[pid[t]])]_vars
    /\ [](\A t \in Threads :
            (pc[t] = "s_loop" /\ AndCount(x[t]) = COUNT_MASK)
                => ~ENABLED <<SharedCas(t)>>_vars)

\* the count is at COUNT_MASK, one thread holds a shared guard of its own
\* and another has read the full count inside lock_shared
C21_Witness ==
    \E t \in Threads : \E u \in Threads \ {t} :
        /\ pc[t] = "s_loop"
        /\ AndCount(x[t]) = COUNT_MASK
        /\ pc[u] = "holdS" /\ pid[u] = pid[t]
        /\ word[pid[t]] = COUNT_MASK

\* t has set the exclusive flag in lock_exclusive and waits for the shared
\* count to drain
Draining(t) == pc[t] = "x_drain"

\* what the drain loop of lock_exclusive relies on
DrainStep(p) ==
    /\ (AndExcl(word[p]) # 0 /\ AndExcl(word'[p]) # 0) =>
           AndCount(word'[p]) <= AndCount(word[p])
    /\ \A t \in Threads : \A u \in Threads :
           (Draining(t) /\ pid[t] = p /\ pid[u] = p) => ~SharedIncrementStep(u)

\* with every shared holder gone the next load of the drain loop returns
DrainReturnsWhenDrained(t) ==
    (Draining(t) /\ SharedHolders(pid[t]) = {}) =>
        ENABLED <<ExclusiveDrain(t)>>_vars

\* C22: while the flag set by a lock_exclusive caller stays set the shared
\* count only decreases; no thread acquires shared while the caller
\* drains, however many keep calling lock_shared or lock_optimistic, so
\* once the threads that held shared have unlocked, the caller's next load
\* returns.
C22_DrainTerminates ==
    /\ [][\A p \in Pages : DrainStep(p)]_vars
    /\ [](\A t \in Threads : DrainReturnsWhenDrained(t))

\* C22 in a build with debug assertions
C22_InDebugBuild ==
    /\ [][debug_assertions => \A p \in Pages : DrainStep(p)]_vars
    /\ [](debug_assertions => \A t \in Threads : DrainReturnsWhenDrained(t))

\* C22 as a liveness property of a build with debug assertions: under fair
\* scheduling, with every shared guard released, a draining caller returns
C22_DrainReturns ==
    \A t \in Threads : (debug_assertions /\ Draining(t)) ~> (pc[t] = "holdX")

\* t executes unlock_shared (release or drop of its SimpleGuardS)
UnlockSharedStep(t) ==
    pc[t] \in {"holdS", "unwindS"} /\ pc'[t] \notin {"holdS", "unwindS"}

\* the versions that the acquisitions and releases of t return; ver[t] is
\* the version the acquisition returned
ReturnedByThread(t) ==
    /\ GuardXAcquireStep(t) => ver'[t] = VersionOf(word[pid'[t]])
    /\ UnlockExclusiveStep(t) =>
          /\ UnlockExclusiveReturn(word[pid[t]]) = ver[t] + 1
          /\ UnlockExclusiveReturn(word[pid[t]]) = VersionOf(word'[pid[t]])
    /\ UnlockSharedStep(t) => UnlockSharedReturn(word[pid[t]]) = ver[t]

\* a kept version passes a must-equal filter on its page exactly when no
\* exclusive release of the page has happened since it was returned
ReturnedAccepted ==
    ret.has => (FilterCheck(MustEqual(ret.v), VersionOf(word[ret.p])) <=> ~ret.since)

\* C23: lock_exclusive returns the version before locking, the matching
\* unlock_exclusive that version plus one, which is the version field right
\* after the release; unlock_shared returns the version under which the
\* shared lock was held; a version returned by a release is accepted by a
\* later must-equal filter on the pid exactly when no exclusive release
\* happened in between.
C23_ReturnedVersions ==
    /\ [][\A t \in Threads : ReturnedByThread(t)]_vars
    /\ []ReturnedAccepted

\* C23 in a build with debug assertions
C23_InDebugBuild ==
    /\ [][debug_assertions => \A t \in Threads : ReturnedByThread(t)]_vars
    /\ [](debug_assertions => ReturnedAccepted)

\* t unwinds, and what it unwinds from is an optimistic error
UnwindsFromOptimisticError(t) ==
    /\ pc[t] \in {"unwind", "r_unwind", "unwindX", "unwindS"}
    /\ res[t] # "panic"

\* t unwinds from a panic that is no optimistic error
UnwindsFromPanic(t) ==
    /\ pc[t] \in {"unwindX", "unwindS"}
    /\ res[t] = "panic"

\* C24: is_unwinding() is true exactly while the thread unwinds from an
\* optimistic error; in the unwind of another panic it is false and the
\* drop of a guard does what it does at a normal scope exit: it releases
\* the lock and asserts nothing about written.
C24_IsUnwinding ==
    /\ [](\A t \in Threads :
            IsUnwinding(pc[t]) <=> UnwindsFromOptimisticError(t))
    /\ [][\A t \in Threads :
            (UnwindsFromPanic(t) /\ GuardXDropStep(t)) =>
                (~GuardXDropFailed(t) /\ AndExcl(word'[pid[t]]) = 0)]_vars

\* C24, the drop of a SimpleGuardX alone
C24_DropInPanic ==
    [][\A t \in Threads :
          (UnwindsFromPanic(t) /\ GuardXDropStep(t)) => ~GuardXDropFailed(t)]_vars
====
